---- MODULE Spec2Model ----
(***************************************************************************)
(* A model of src/src/04-date-tasks.js: five stateless date functions      *)
(* (parseDataFromRfc2822, parseDataFromIso8601, isLeapYear,                *)
(* timeSpanToString, angleBetweenClockHands) and the part of the           *)
(* ECMAScript Date object they call.                                       *)
(*                                                                         *)
(* Representation.                                                         *)
(*  - A JavaScript string is a TLA+ string (a sequence of characters).     *)
(*  - A time value (milliseconds since 1970-01-01T00:00:00Z) is the record *)
(*    [day |-> d, ms |-> r] standing for d * msPerDay + r, 0 <= r <        *)
(*    msPerDay: TLC's integers are 32 bits wide and a time value of the    *)
(*    year 2016 is not.  NaN is the time value of an invalid Date.         *)
(*  - A Date object is its time value.                                     *)
(*  - The platform's time zone is a fixed offset tz, in minutes east of    *)
(*    Greenwich (no daylight saving).                                      *)
(*  - An angle is an integer count of half degrees, so that the code's     *)
(*    minute / 60 * 30 is exact; n half degrees are n * pi / 360 radians.  *)
(*    Floating-point rounding is not modelled.                             *)
(***************************************************************************)
EXTENDS Integers, Sequences, FiniteSets, TLC

VARIABLES
    tz,      \* the platform's time-zone offset, minutes east of Greenwich
    op,      \* the function called last, "none" before the first call
    args,    \* the arguments of that call, a record
    result   \* what that call returned

vars == <<tz, op, args, result>>

----------------------------------------------------------------------------
(* Bounds of the model. *)

\* the longest time span handed to timeSpanToString has MaxHours full hours
MaxHours == 101

\* isLeapYear is tried on every year from FirstYear to LastYear
FirstYear == 1896
LastYear == 2016

----------------------------------------------------------------------------
(* JavaScript numbers and strings, as far as the source uses them. *)

\* x % y of JavaScript for y > 0: the remainder takes the dividend's sign
JsRem(x, y) == IF x >= 0 THEN x % y ELSE -((-x) % y)

\* Math.round(x / y) for integers x and y > 0, in the place of Math.floor
MathRoundDiv(x, y) == (2 * x + y) \div (2 * y)

\* Math.floor(x / y) for integers x and y > 0
MathFloorDiv(x, y) == x \div y

MathAbsIdentity(x) == x

\* Math.abs
MathAbs(x) == IF x < 0 THEN -x ELSE x

DigitChar(d) == SubSeq("0123456789", d + 1, d + 1)

RECURSIVE NumberToString(_)
\* Number.prototype.toString of an integer, also the string + number coercion
NumberToString(n) ==
    IF n < 0 THEN "-" \o NumberToString(-n)
    ELSE IF n < 10 THEN DigitChar(n)
    ELSE NumberToString(n \div 10) \o DigitChar(n % 10)

\* a slice that was forgotten: the whole string
SliceNothing(str, start) == str

\* String.prototype.slice(start) for start >= 0
Slice(str, start) == SubSeq(str, start + 1, Len(str))

----------------------------------------------------------------------------
(* Time values (ECMA-262, Time Values and Time Range). *)

msPerSecond == 1000
msPerMinute == 60000
msPerHour == 3600000
msPerDay == 24 * msPerHour

NaN == [nan |-> TRUE]

IsNaN(t) == t = NaN

\* the time value of day number d plus n milliseconds (n of any sign)
TimeValue(d, n) == [day |-> d + (n \div msPerDay), ms |-> n % msPerDay]

\* t + n for a time value t and a number of milliseconds n
TimePlus(t, n) == TimeValue(t.day, t.ms + n)

\* a - b for two time values, a number of milliseconds
TimeMinus(a, b) == (a.day - b.day) * msPerDay + (a.ms - b.ms)

\* Date.prototype.getTime
getTime(date) == date

\* ECMA-262 Day(t) and TimeWithinDay(t)
Day(t) == t.day
TimeWithinDay(t) == t.ms

\* ECMA-262 DaysInYear(y)
DaysInYear(y) ==
    IF y % 4 # 0 THEN 365
    ELSE IF y % 100 # 0 THEN 366
    ELSE IF y % 400 # 0 THEN 365
    ELSE 366

\* ECMA-262 DayFromYear(y): the day number of the first day of year y
DayFromYear(y) ==
    365 * (y - 1970) + ((y - 1969) \div 4) - ((y - 1901) \div 100)
        + ((y - 1601) \div 400)

\* ECMA-262 YearFromTime(t): the largest y with DayFromYear(y) <= Day(t),
\* looked for around 1970 + Day(t) / 365.2425
YearFromTime(t) ==
    LET lo == 1970 + (IF Day(t) >= 0 THEN Day(t) \div 366 ELSE Day(t) \div 365) - 1
        hi == 1970 + (IF Day(t) >= 0 THEN Day(t) \div 365 ELSE Day(t) \div 366) + 1
    IN  CHOOSE y \in lo..hi : DayFromYear(y) <= Day(t) /\ Day(t) < DayFromYear(y + 1)

\* ECMA-262 HourFromTime, MinFromTime, SecFromTime, msFromTime
HourFromTime(t) == (TimeWithinDay(t) \div msPerHour) % 24
MinFromTime(t) == (TimeWithinDay(t) \div msPerMinute) % 60
SecFromTime(t) == (TimeWithinDay(t) \div msPerSecond) % 60
msFromTime(t) == TimeWithinDay(t) % msPerSecond

\* ECMA-262 LocalTime(t) and UTC(t), for a time zone of offset minutes
LocalTime(t, offset) == TimePlus(t, offset * msPerMinute)
UTC(t, offset) == TimePlus(t, -(offset * msPerMinute))

\* the day number of the first day of month m (0..11) of year y
DayFromMonth(y, m) ==
    DayFromYear(y)
        + <<0, 31, 59, 90, 120, 151, 181, 212, 243, 273, 304, 334>>[m + 1]
        + (IF m >= 2 /\ DaysInYear(y) = 366 THEN 1 ELSE 0)

\* ECMA-262 MakeDay(year, month, date) for month in 0..11, MakeTime and MakeDate
MakeDay(year, month, date) == DayFromMonth(year, month) + date - 1
MakeTime(hour, min, sec, ms) ==
    hour * msPerHour + min * msPerMinute + sec * msPerSecond + ms
MakeDate(day, time) == TimeValue(day, time)

\* Date.UTC(year, month, date, hours, minutes)
DateUTC(year, month, date, hours, minutes) ==
    MakeDate(MakeDay(year, month, date), MakeTime(hours, minutes, 0, 0))

\* Date.prototype.getFullYear, getUTCHours, getMinutes, getUTCMinutes
getFullYear(date, offset) == YearFromTime(LocalTime(date, offset))
getUTCHours(date) == HourFromTime(date)
getMinutes(date, offset) == MinFromTime(LocalTime(date, offset))
getUTCMinutes(date) == MinFromTime(date)

\* ECMA-262 MonthFromTime(t) (0..11), DateFromTime(t) (1..31), WeekDay(t)
MonthFromTime(t) ==
    CHOOSE m \in 0..11 :
        /\ DayFromMonth(YearFromTime(t), m) <= Day(t)
        /\ m < 11 => Day(t) < DayFromMonth(YearFromTime(t), m + 1)
DateFromTime(t) == Day(t) - DayFromMonth(YearFromTime(t), MonthFromTime(t)) + 1
WeekDay(t) == (Day(t) + 4) % 7

----------------------------------------------------------------------------
(* new Date(value) for a string: Date.parse (ECMA-262 Date.parse and Date   *)
(* Time String Format).  A string in the date-time string format is read   *)
(* as the standard says; any other string goes to the implementation's     *)
(* fallback, of which the two forms of the source's doc comment are        *)
(* modelled ("Tue, 26 Jan 2016 13:48:02 GMT", "December 17, 1995           *)
(* 03:24:00"); what neither recognises is NaN.  Nothing here throws.       *)

\* the characters of str from position from to position to, as far as there
\* are any (String.prototype.slice(from - 1, to))
Part(str, from, to) ==
    IF from > Len(str) \/ from > to THEN ""
    ELSE SubSeq(str, from, IF to > Len(str) THEN Len(str) ELSE to)

\* the character of str at position i, "" beyond its end
Ch(str, i) == IF 1 <= i /\ i <= Len(str) THEN SubSeq(str, i, i) ELSE ""

IsDigitAt(str, i) == \E d \in 0..9 : Ch(str, i) = DigitChar(d)

DigitAt(str, i) == CHOOSE d \in 0..9 : Ch(str, i) = DigitChar(d)

RECURSIVE Num(_, _, _)
\* the number written by the len digits of str from position from, -1 when
\* they are not len digits
Num(str, from, len) ==
    IF len = 0 THEN 0
    ELSE IF ~IsDigitAt(str, from + len - 1) \/ Num(str, from, len - 1) < 0 THEN -1
    ELSE 10 * Num(str, from, len - 1) + DigitAt(str, from + len - 1)

\* a time-zone designator sHH:mm, sHHmm or sHH as minutes east of Greenwich,
\* -1440 when zone is none of them
ZoneMinutes(zone) ==
    LET sign == IF Ch(zone, 1) = "-" THEN -1 ELSE 1
        hh == Num(zone, 2, 2)
        mm == IF Len(zone) = 6 THEN Num(zone, 5, 2)
              ELSE IF Len(zone) = 5 THEN Num(zone, 4, 2)
              ELSE 0
    IN  IF /\ Ch(zone, 1) \in {"+", "-"}
           /\ \/ Len(zone) = 3
              \/ Len(zone) = 5
              \/ Len(zone) = 6 /\ Ch(zone, 4) = ":"
           /\ hh \in 0..23
           /\ mm \in 0..59
        THEN sign * (hh * 60 + mm)
        ELSE -1440

\* HH:mm, HH:mm:ss or HH:mm:ss.sss as milliseconds within the day, -1 when
\* time is none of them
TimeOfDay(time) ==
    LET hour == Num(time, 1, 2)
        min == Num(time, 4, 2)
        sec == IF Len(time) >= 8 THEN Num(time, 7, 2) ELSE 0
        ms == IF Len(time) = 12 THEN Num(time, 10, 3) ELSE 0
    IN  IF /\ Len(time) \in {5, 8, 12}
           /\ Ch(time, 3) = ":"
           /\ Len(time) >= 8 => Ch(time, 6) = ":"
           /\ Len(time) = 12 => Ch(time, 9) = "."
           /\ hour \in 0..24 /\ min \in 0..59 /\ sec \in 0..59 /\ ms \in 0..999
           /\ hour = 24 => (min = 0 /\ sec = 0 /\ ms = 0)
        THEN MakeTime(hour, min, sec, ms)
        ELSE -1

\* the date-time string format YYYY-MM-DD[THH:mm[:ss[.sss]][Z|sHH:mm]]; a
\* date alone is UTC, a date and time without designator is local time
IsoParse(str, offset) ==
    LET year == Num(str, 1, 4)
        month == Num(str, 6, 2)
        date == Num(str, 9, 2)
        dateOk == /\ year >= 0 /\ Ch(str, 5) = "-" /\ month \in 1..12
                  /\ Ch(str, 8) = "-" /\ date \in 1..31
        timeLen == IF Ch(str, 17) # ":" THEN 5 ELSE IF Ch(str, 20) # "." THEN 8 ELSE 12
        time == TimeOfDay(Part(str, 12, 11 + timeLen))
        zone == Part(str, 12 + timeLen, Len(str))
        zoneOk == zone \in {"", "Z"} \/ (Len(zone) = 6 /\ ZoneMinutes(zone) # -1440)
        east == IF zone = "" THEN offset ELSE IF zone = "Z" THEN 0 ELSE ZoneMinutes(zone)
    IN  IF dateOk /\ Len(str) = 10
        THEN MakeDate(MakeDay(year, month - 1, date), 0)
        ELSE IF dateOk /\ Ch(str, 11) = "T" /\ time >= 0 /\ zoneOk
        THEN UTC(MakeDate(MakeDay(year, month - 1, date), time), east)
        ELSE NaN

RECURSIVE Tokens(_)
\* the words of str: what spaces and commas separate
Tokens(str) ==
    LET seps == {i \in 1..Len(str) : Ch(str, i) \in {" ", ","}}
        cut == CHOOSE i \in seps : \A j \in seps : i <= j
        rest == Tokens(SubSeq(str, cut + 1, Len(str)))
    IN  IF str = "" THEN <<>>
        ELSE IF seps = {} THEN <<str>>
        ELSE IF cut = 1 THEN rest
        ELSE <<SubSeq(str, 1, cut - 1)>> \o rest

MonthNames ==
    <<"Jan", "Feb", "Mar", "Apr", "May", "Jun", "Jul", "Aug", "Sep", "Oct", "Nov", "Dec">>

DayNames == <<"Sun", "Mon", "Tue", "Wed", "Thu", "Fri", "Sat">>

\* the month (1..12) a word names by its first three letters, 0 for no month
MonthOf(word) ==
    IF \E m \in 1..12 : Part(word, 1, 3) = MonthNames[m]
    THEN CHOOSE m \in 1..12 : Part(word, 1, 3) = MonthNames[m]
    ELSE 0

\* the zone word of the fallback forms: GMT, UTC or Z, a signed offset, or GMT
\* and a signed offset; minutes east of Greenwich, -1440 for anything else
LegacyZone(word) ==
    IF word \in {"GMT", "UTC", "Z"} THEN 0
    ELSE IF Part(word, 1, 3) \in {"GMT", "UTC"} THEN ZoneMinutes(Part(word, 4, Len(word)))
    ELSE ZoneMinutes(word)

\* [Www,] DD Mon YYYY HH:mm:ss [zone]  and  [Www,] Month DD, YYYY HH:mm:ss [zone];
\* without a zone the time is local
LegacyParse(str, offset) ==
    LET all == Tokens(str)
        named == Len(all) > 0 /\ \E d \in 1..7 : all[1] = DayNames[d]
        words == IF named THEN Tail(all) ELSE all
        dayFirst == Num(words[1], 1, Len(words[1])) >= 0
        dayWord == IF dayFirst THEN words[1] ELSE words[2]
        date == IF Len(dayWord) \in 1..2 THEN Num(dayWord, 1, Len(dayWord)) ELSE -1
        month == MonthOf(IF dayFirst THEN words[2] ELSE words[1])
        year == IF Len(words[3]) = 4 THEN Num(words[3], 1, 4) ELSE -1
        time == IF Len(words[4]) = 8 THEN TimeOfDay(words[4]) ELSE -1
        east == IF Len(words) = 5 THEN LegacyZone(words[5]) ELSE offset
    IN  IF /\ Len(words) \in 4..5
           /\ date \in 1..31 /\ month \in 1..12 /\ year >= 0
           /\ time >= 0 /\ time < msPerDay
           /\ east # -1440
        THEN UTC(MakeDate(MakeDay(year, month - 1, date), time), east)
        ELSE NaN

\* Date.parse(str)
DateParse(str, offset) ==
    IF ~IsNaN(IsoParse(str, offset)) THEN IsoParse(str, offset)
    ELSE LegacyParse(str, offset)

\* new Date(value) for a string value
NewDate(value, offset) == DateParse(value, offset)

RECURSIVE PadStart(_, _)
\* String.prototype.padStart(width, "0")
PadStart(str, width) == IF Len(str) >= width THEN str ELSE PadStart("0" \o str, width)

\* YYYY-MM-DDTHH:mm:ss of a time value, for a year in 0..9999
DateTimeString(t) ==
    PadStart(NumberToString(YearFromTime(t)), 4)
        \o "-" \o PadStart(NumberToString(MonthFromTime(t) + 1), 2)
        \o "-" \o PadStart(NumberToString(DateFromTime(t)), 2)
        \o "T" \o PadStart(NumberToString(HourFromTime(t)), 2)
        \o ":" \o PadStart(NumberToString(MinFromTime(t)), 2)
        \o ":" \o PadStart(NumberToString(SecFromTime(t)), 2)

\* Date.prototype.toISOString
toISOString(date) ==
    DateTimeString(date) \o "." \o PadStart(NumberToString(msFromTime(date)), 3) \o "Z"

\* Date.prototype.toUTCString: Www, DD Mon YYYY HH:mm:ss GMT
toUTCString(date) ==
    DayNames[WeekDay(date) + 1]
        \o ", " \o PadStart(NumberToString(DateFromTime(date)), 2)
        \o " " \o MonthNames[MonthFromTime(date) + 1]
        \o " " \o PadStart(NumberToString(YearFromTime(date)), 4)
        \o " " \o SubSeq(DateTimeString(date), 12, 19)
        \o " GMT"

----------------------------------------------------------------------------
(* parseDataFromRfc2822 and parseDataFromIso8601; offset is the platform's *)
(* time zone, which new Date reads for a string without a zone              *)

\* an unreadable string turned into the epoch: new Date(Date.parse(value) || 0)
parseDataFromRfc2822OrEpoch(value, offset) ==
    IF IsNaN(NewDate(value, offset)) THEN TimeValue(0, 0) ELSE NewDate(value, offset)

parseDataFromRfc2822(value, offset) == NewDate(value, offset)

\* the zone cut off the string: new Date(value.slice(0, 19))
parseDataFromIso8601Truncated(value, offset) == NewDate(Part(value, 1, 19), offset)

parseDataFromIso8601(value, offset) == NewDate(value, offset)

----------------------------------------------------------------------------
(* isLeapYear; offset is the platform's time zone, which getFullYear reads *)

\* the rule without its century exception
isLeapYearEveryFourth(date, offset) == JsRem(getFullYear(date, offset), 4) = 0

isLeapYear(date, offset) ==
    LET year == getFullYear(date, offset)
    IN  IF (JsRem(year, 100) = 0 \/ JsRem(year, 4) # 0) /\ JsRem(year, 400) # 0
        THEN FALSE
        ELSE TRUE

----------------------------------------------------------------------------
(* angleBetweenClockHands; the angles are counted in half degrees, the      *)
(* result r stands for r * pi / 360 radians                                *)

\* n degrees, in half degrees
Degrees(n) == 2 * n

\* the hour is never reduced
angleBetweenClockHandsUnreduced(date, offset) ==
    LET hour == getUTCHours(date)
        minute == getMinutes(date, offset)
        hourAngle == Degrees(hour * 30) + minute
        minuteAngle == Degrees(minute * 6)
        diff0 == hourAngle - minuteAngle
        diff == IF MathAbs(diff0) > Degrees(180)
                THEN MathAbs(diff0) - Degrees(360)
                ELSE diff0
    IN  MathAbs(diff)

\* the larger angle is never exchanged for the smaller
angleBetweenClockHandsUnfolded(date, offset) ==
    LET hour0 == getUTCHours(date)
        minute == getMinutes(date, offset)
        hour == IF hour0 > 12 THEN JsRem(hour0, 12) ELSE hour0
        hourAngle == Degrees(hour * 30) + minute
        minuteAngle == Degrees(minute * 6)
    IN  MathAbs(hourAngle - minuteAngle)

angleBetweenClockHands(date, offset) ==
    LET hour0 == getUTCHours(date)
        minute == getMinutes(date, offset)
        hour == IF hour0 > 12 THEN JsRem(hour0, 12) ELSE hour0
        \* (hour + minute / 60) * 30 degrees = hour * 30 degrees + minute / 2 degrees
        hourAngle == Degrees(hour * 30) + minute
        minuteAngle == Degrees(minute * 6)
        diff0 == hourAngle - minuteAngle
        diff == IF MathAbs(diff0) > Degrees(180)
                THEN MathAbs(diff0) - Degrees(360)
                ELSE diff0
    IN  MathAbs(diff)

----------------------------------------------------------------------------
(* timeSpanToString *)

timeSpanToString(startDate, endDate) ==
    LET diff == MathAbs(TimeMinus(getTime(endDate), getTime(startDate)))
        hDiff == MathFloorDiv(diff, 3600000)
        mDiff == MathFloorDiv(JsRem(diff, 3600000), 60000)
        sDiff == MathFloorDiv(JsRem(JsRem(diff, 3600000), 60000), 1000)
        msDiff == JsRem(JsRem(JsRem(diff, 3600000), 60000), 1000)
        ms == IF msDiff > 0
              THEN Slice("000" \o NumberToString(msDiff), Len(NumberToString(msDiff)))
              ELSE "000"
        s == IF sDiff > 0
             THEN Slice("00" \o NumberToString(sDiff), Len(NumberToString(sDiff)))
             ELSE "00"
        m == IF mDiff > 0
             THEN Slice("00" \o NumberToString(mDiff), Len(NumberToString(mDiff)))
             ELSE "00"
        h == IF hDiff > 0
             THEN Slice("00" \o NumberToString(hDiff), Len(NumberToString(hDiff)))
             ELSE "00"
    IN  h \o ":" \o m \o ":" \o s \o "." \o ms

----------------------------------------------------------------------------
(* The inputs the model draws. *)

TimeZones == {-300, 0, 330}

\* 1970-01-01T00:00:00Z and 2000-02-01T10:00:00Z
StartDates == {TimeValue(0, 0), TimeValue(10988, 10 * msPerHour)}

SpanHours == {0, 1, 5, 10, 99} \cup (100..MaxHours)
SpanMinutes == {0, 7, 20, 30, 59}
SpanSeconds == {0, 10, 20, 59}
SpanMillis == {0, 5, 50, 250, 453, 999}

Spans ==
    {((h * 60 + m) * 60 + s) * 1000 + l :
        h \in SpanHours, m \in SpanMinutes, s \in SpanSeconds, l \in SpanMillis}

\* the years isLeapYear is tried on
Years ==
    (FirstYear..LastYear)
        \cup {-400, -100, -4, -1, 0, 4, 100, 400, 1600, 1700, 1800, 2100, 2400}

\* Date.UTC(y, 0, 1, 0, 0), Date.UTC(y, 1, 1, 12, 0) and Date.UTC(y, 11, 31, 23, 30):
\* the first and the last carry another local year in some time zones
LeapYearDates ==
    {DateUTC(y, 0, 1, 0, 0) : y \in Years}
        \cup {DateUTC(y, 1, 1, 12, 0) : y \in Years}
        \cup {DateUTC(y, 11, 31, 23, 30) : y \in Years}

\* every minute of 2016-04-05 (UTC)
ClockDates == {DateUTC(2016, 3, 5, h, m) : h \in 0..23, m \in 0..59}

\* the instants whose strings are parsed: 2016-01-19T16:07:37Z and
\* 2016-01-19T08:07:37Z, 2016-01-26T13:48:02Z, 1995-12-17T03:24:00Z and
\* 1998-05-17T02:00:00Z of the doc comments, the epoch, and two instants whose
\* date changes with the zone
ParseInstants ==
    {TimeValue(16819, 58057000), TimeValue(16819, 29257000), TimeValue(16826, 49682000),
     TimeValue(9481, 12240000), TimeValue(10363, 7200000), TimeValue(0, 0),
     DateUTC(2015, 11, 31, 23, 30), DateUTC(2016, 1, 29, 0, 15)}

\* the zones the strings are written in, minutes east of Greenwich
ZoneOffsets == {0, 60, 330, -300, 765}

\* the designator sHH:mm of a zone
ZoneDesignator(east) ==
    (IF east < 0 THEN "-" ELSE "+")
        \o PadStart(NumberToString(MathAbs(east) \div 60), 2)
        \o ":" \o PadStart(NumberToString(MathAbs(east) % 60), 2)

\* the instant t written in the date-time string format, in zone east
IsoStringInZone(t, east) == DateTimeString(LocalTime(t, east)) \o ZoneDesignator(east)

\* the instant t written with the suffix Z
IsoStringZ(t) == DateTimeString(t) \o "Z"

\* strings in the date-time string format that carry their zone
IsoStrings ==
    {IsoStringZ(t) : t \in ParseInstants}
        \cup {toISOString(t) : t \in ParseInstants}
        \cup {IsoStringInZone(t, east) : t \in ParseInstants, east \in ZoneOffsets}

\* strings in the forms of RFC 2822, and the doc comment's examples
RfcStrings ==
    {toUTCString(t) : t \in ParseInstants}
        \cup {"December 17, 1995 03:24:00", "Tue, 26 Jan 2016 13:48:02 GMT",
              "Sun, 17 May 1998 03:00:00 GMT+01", "26 Jan 2016 19:18:02 +0530"}

\* strings without a zone, read as local time
LocalStrings == {DateTimeString(t) : t \in ParseInstants}

\* strings no date can be read from
UnreadableStrings ==
    {"not-a-date", "", "date", "2016-13-19T16:07:37Z", "2016-01-19T25:07:37Z",
     "Tue, 26 Foo 2016 13:48:02 GMT"}

ParseStrings == IsoStrings \cup RfcStrings \cup LocalStrings \cup UnreadableStrings

----------------------------------------------------------------------------
(* The state machine: the platform's time zone is fixed at start-up, then   *)
(* one of the five functions is called once with inputs drawn from the     *)
(* sets above (the functions keep no state, so one call shows them all).   *)

Init ==
    /\ tz \in TimeZones
    /\ op = "none"
    /\ args = [none |-> TRUE]
    /\ result = "none"

CallTimeSpanToString ==
    \E a \in StartDates, n \in Spans, swap \in BOOLEAN :
        LET b == TimePlus(a, n)
            startDate == IF swap THEN b ELSE a
            endDate == IF swap THEN a ELSE b
        IN  /\ op = "none"
            /\ op' = "timeSpanToString"
            /\ args' = [startDate |-> startDate, endDate |-> endDate]
            /\ result' = timeSpanToString(startDate, endDate)
            /\ UNCHANGED tz

CallIsLeapYear ==
    \E date \in LeapYearDates :
        /\ op = "none"
        /\ op' = "isLeapYear"
        /\ args' = [date |-> date]
        /\ result' = isLeapYear(date, tz)
        /\ UNCHANGED tz

CallAngleBetweenClockHands ==
    \E date \in ClockDates :
        /\ op = "none"
        /\ op' = "angleBetweenClockHands"
        /\ args' = [date |-> date]
        /\ result' = angleBetweenClockHands(date, tz)
        /\ UNCHANGED tz

CallParseDataFromRfc2822 ==
    \E value \in ParseStrings :
        /\ op = "none"
        /\ op' = "parseDataFromRfc2822"
        /\ args' = [value |-> value]
        /\ result' = parseDataFromRfc2822(value, tz)
        /\ UNCHANGED tz

CallParseDataFromIso8601 ==
    \E value \in ParseStrings :
        /\ op = "none"
        /\ op' = "parseDataFromIso8601"
        /\ args' = [value |-> value]
        /\ result' = parseDataFromIso8601(value, tz)
        /\ UNCHANGED tz

Next ==
    \/ CallParseDataFromRfc2822
    \/ CallParseDataFromIso8601
    \/ CallTimeSpanToString
    \/ CallIsLeapYear
    \/ CallAngleBetweenClockHands

Spec == Init /\ [][Next]_vars

----------------------------------------------------------------------------
(* What the claims are stated with: the reading of a result, written       *)
(* without the operators of the model above.                               *)

Digits == {"0", "1", "2", "3", "4", "5", "6", "7", "8", "9"}

CharAt(str, i) == SubSeq(str, i, i)

AllDigits(str) == \A i \in 1..Len(str) : CharAt(str, i) \in Digits

DigitValue(c) == CHOOSE d \in 0..9 : CharAt("0123456789", d + 1) = c

RECURSIVE Decimal(_)
\* the number a non-empty string of digits denotes
Decimal(str) ==
    IF Len(str) = 1 THEN DigitValue(str)
    ELSE 10 * Decimal(SubSeq(str, 1, Len(str) - 1)) + DigitValue(CharAt(str, Len(str)))

\* n in 0..99 written with exactly two digits, n in 0..999 with exactly three
TwoDigits(n) == CharAt("0123456789", n \div 10 + 1) \o CharAt("0123456789", (n % 10) + 1)
ThreeDigits(n) == CharAt("0123456789", n \div 100 + 1) \o TwoDigits(n % 100)

RECURSIVE Rendering(_)
\* the decimal rendering of n >= 0, without padding
Rendering(n) ==
    IF n < 10 THEN CharAt("0123456789", n + 1)
    ELSE Rendering(n \div 10) \o CharAt("0123456789", (n % 10) + 1)

\* the first position of one of the characters seps in str, 0 when there is none
FirstOf(str, seps) ==
    IF \E i \in 1..Len(str) : CharAt(str, i) \in seps
    THEN CHOOSE i \in 1..Len(str) :
            /\ CharAt(str, i) \in seps
            /\ \A j \in 1..(i - 1) : CharAt(str, j) \notin seps
    ELSE 0

RECURSIVE Fields(_, _)
\* str cut at every character of seps: the sequence of the fields between them
Fields(str, seps) ==
    IF FirstOf(str, seps) = 0 THEN <<str>>
    ELSE <<SubSeq(str, 1, FirstOf(str, seps) - 1)>>
            \o Fields(SubSeq(str, FirstOf(str, seps) + 1, Len(str)), seps)

\* |endDate - startDate| of the call in the state, in milliseconds
SpanOfCall ==
    IF TimeMinus(args.endDate, args.startDate) < 0
    THEN TimeMinus(args.startDate, args.endDate)
    ELSE TimeMinus(args.endDate, args.startDate)

\* the hour field of a result: what precedes its first colon
HourField(str) == Fields(str, {":"})[1]

----------------------------------------------------------------------------
(* The claims about the two parsers. *)

\* a Date whose time value is a number: what the validity check
\* !isNaN(date.getTime()) accepts
IsValidDate(date) ==
    /\ DOMAIN date = {"day", "ms"}
    /\ date.day \in Int
    /\ date.ms \in 0..(24 * 3600000 - 1)

\* C8: neither parser raises: the result is a Date, invalid (NaN, which the
\* validity check tells from every valid date) for a string no date can be
\* read from, such as "not-a-date", and valid for a string a date can be read
\* from; nothing else, an exception or null, comes out.
C8_NeverRaises ==
    op \in {"parseDataFromRfc2822", "parseDataFromIso8601"} =>
        /\ IsNaN(getTime(result)) \/ IsValidDate(result)
        /\ ~(IsNaN(getTime(result)) /\ IsValidDate(result))
        /\ args.value \in UnreadableStrings => IsNaN(getTime(result))
        /\ args.value \in IsoStrings \cup RfcStrings \cup LocalStrings => IsValidDate(result)

\* "not-a-date" handed to the RFC 2822 parser: the invalid Date
C8_Witness ==
    /\ op = "parseDataFromRfc2822"
    /\ args.value = "not-a-date"
    /\ IsNaN(getTime(result))
    /\ ~IsValidDate(result)

\* C9: parseDataFromIso8601 is anchored to the instant: a string that writes
\* an instant in any zone, or with the suffix Z, parses to that instant's time
\* value, and the parsed date written by toISOString parses to the same date.
C9_SameInstant ==
    op = "parseDataFromIso8601" =>
        /\ \A t \in ParseInstants :
                /\ args.value = IsoStringZ(t) => result = t
                /\ \A east \in ZoneOffsets :
                        args.value = IsoStringInZone(t, east) => result = t
        /\ IsValidDate(result) => parseDataFromIso8601(toISOString(result), tz) = result

\* 2016-01-19T16:07:37Z written in the zone +05:30
C9_Witness ==
    /\ op = "parseDataFromIso8601"
    /\ args.value = "2016-01-19T21:37:37+05:30"
    /\ result = [day |-> 16819, ms |-> 58057000]
    /\ toISOString(result) = "2016-01-19T16:07:37.000Z"

----------------------------------------------------------------------------
(* The claims about timeSpanToString. *)

\* C1: the hour field of the result is the decimal rendering of
\* floor(|endDate - startDate| / 3600000), zero-padded to at least two digits,
\* with no upper clamp: a span of 100 hours or more has an hour field of three
\* or more digits.
C1_HourFieldUnclamped ==
    op = "timeSpanToString" =>
        HourField(result) =
            IF SpanOfCall \div 3600000 < 10
            THEN "0" \o Rendering(SpanOfCall \div 3600000)
            ELSE Rendering(SpanOfCall \div 3600000)

\* C6: timeSpanToString(a, b) = timeSpanToString(b, a): the result of a call is
\* the result of the call with the two dates exchanged.
C6_Symmetric ==
    op = "timeSpanToString" =>
        result = timeSpanToString(args.endDate, args.startDate)

\* a call whose end date is earlier than its start date, by 05:20:10.453
C6_Witness ==
    /\ op = "timeSpanToString"
    /\ TimeMinus(args.endDate, args.startDate) = -19210453
    /\ result = "05:20:10.453"

\* C7: the result is digits:MM:SS.mmm with at least two hour digits, MM the
\* minutes floor((diff mod 3600000) / 60000) in exactly two digits, SS the
\* seconds floor((diff mod 60000) / 1000) in exactly two digits and mmm the
\* milliseconds diff mod 1000 in exactly three digits, zero fields included.
C7_Shape ==
    op = "timeSpanToString" =>
        /\ Len(HourField(result)) >= 2
        /\ AllDigits(HourField(result))
        /\ result = HourField(result)
                \o ":" \o TwoDigits((SpanOfCall % 3600000) \div 60000)
                \o ":" \o TwoDigits((SpanOfCall % 60000) \div 1000)
                \o "." \o ThreeDigits(SpanOfCall % 1000)

\* a span of 5 hours and 5 milliseconds: zero minutes and seconds, padded
\* hours and milliseconds
C7_Witness ==
    /\ op = "timeSpanToString"
    /\ SpanOfCall = 5 * 3600000 + 5
    /\ result = "05:00:00.005"

\* C10: below 100 hours the result decodes back to the span: its four fields
\* H, M, S, L give H * 3600000 + M * 60000 + S * 1000 + L = |endDate - startDate|.
C10_Decodes ==
    (op = "timeSpanToString" /\ SpanOfCall < 360000000) =>
        LET f == Fields(result, {":", "."})
        IN  /\ Len(f) = 4
            /\ \A i \in 1..4 : Len(f[i]) > 0 /\ AllDigits(f[i])
            /\ Decimal(f[1]) * 3600000 + Decimal(f[2]) * 60000
                    + Decimal(f[3]) * 1000 + Decimal(f[4]) = SpanOfCall

\* the longest span below 100 hours
C10_Witness ==
    /\ op = "timeSpanToString"
    /\ SpanOfCall = 359999999
    /\ result = "99:59:59.999"

----------------------------------------------------------------------------
(* The claim about isLeapYear. *)

\* C2: isLeapYear(date) is true exactly when the date's year y is divisible by
\* 4 and not by 100, or divisible by 400 (1900 -> false, 2000 -> true, 2001 ->
\* false, 2012 -> true, 2015 -> false).
C2_LeapYearRule ==
    op = "isLeapYear" =>
        LET y == getFullYear(args.date, tz)
        IN  /\ result = ((y % 4 = 0 /\ y % 100 # 0) \/ y % 400 = 0)
            /\ y = 1900 => result = FALSE
            /\ y = 2000 => result = TRUE
            /\ y = 2001 => result = FALSE
            /\ y = 2012 => result = TRUE
            /\ y = 2015 => result = FALSE

\* the century year 1900 (1900-02-01T12:00:00Z is day -25536), not a leap year
C2_Witness ==
    /\ op = "isLeapYear"
    /\ args.date = [day |-> -25536, ms |-> 43200000]
    /\ getFullYear(args.date, tz) = 1900
    /\ result = FALSE

----------------------------------------------------------------------------
(* The claims about angleBetweenClockHands. *)

\* the smaller angle between the hands of a clock showing h:m, in half degrees
SmallerAngle(h, m) ==
    LET e == 60 * (h % 12) + m - 12 * m
        d == IF e < 0 THEN -e ELSE e
    IN  IF d < 720 - d THEN d ELSE 720 - d

\* C3: the result is the smaller angle between the hands of a clock showing
\* the instant's UTC hour and UTC minute, under every time-zone offset.
C3_GreenwichTime ==
    op = "angleBetweenClockHands" =>
        result = SmallerAngle(getUTCHours(args.date), getUTCMinutes(args.date))

\* C4: the result is min(d, 360 - d) degrees with d = |30 * (h mod 12) + m / 2
\* - 6 * m| for the hour h and the minute m the function reads, also for
\* h = 12, where the result is that of h = 0 with the same minute.
C4_SmallerAngle ==
    op = "angleBetweenClockHands" =>
        /\ result = SmallerAngle(getUTCHours(args.date), getMinutes(args.date, tz))
        /\ getUTCHours(args.date) = 12 =>
                result = angleBetweenClockHands(TimePlus(args.date, -(12 * msPerHour)), tz)

\* the hour 12 is read, with the minute 40: 140 degrees
C4_Witness ==
    /\ op = "angleBetweenClockHands"
    /\ getUTCHours(args.date) = 12
    /\ getMinutes(args.date, tz) = 40
    /\ result = Degrees(140)

\* C5: the result is in [0, pi]: at least 0 and at most 180 degrees.
C5_Range ==
    op = "angleBetweenClockHands" => (0 <= result /\ result <= Degrees(180))

\* 18:00 read, the hands opposite: pi
C5_Witness ==
    /\ op = "angleBetweenClockHands"
    /\ getUTCHours(args.date) = 18
    /\ getMinutes(args.date, tz) = 0
    /\ result = Degrees(180)

====
